---- MODULE Spec2Model ----
(***************************************************************************)
(* Secure configuration / secret storage of the Enhance Prompt extension:  *)
(* state.ts (secret and preference adapters, updateApiConfiguration,       *)
(* resetAllState, validateApiKey), storage-service.ts (StorageService) and *)
(* the webview's saveConfig message; maskApiKey and the display of the     *)
(* key; the clarify / enhance flows of extension.ts; the lifecycle of the  *)
(* StorageService singleton; StorageEventManager and the re-publication of *)
(* the host's secret-change notifications.                                 *)
(*                                                                         *)
(* Asynchronous operations are modelled as activations in call slots.  A   *)
(* write to the platform vault (context.secrets) or to the preference      *)
(* store (context.globalState) is issued by the synchronous part of a      *)
(* handler and settles later, with success or with a StoreError; the       *)
(* in-memory map of the temporary profile is written synchronously.        *)
(***************************************************************************)
EXTENDS Integers, Sequences, FiniteSets, TLC

VARIABLES
    isTemporaryProfile,   \* state.ts: const isTemporaryProfile
    inMemorySecrets,      \* state.ts: const inMemorySecrets (Map)
    vault,                \* context.secrets of the host
    globalState,          \* context.globalState of the host
    calls,                \* the asynchronous operations in flight, by slot
    accepted,             \* history: candidates validateApiKey has returned true for
    vaultAccessed,        \* history: this process has called context.secrets.*
    memAccessed,          \* history: this process has used inMemorySecrets
    storeErrors,          \* history: the StoreErrors the host has answered with
    maskIn,               \* maskApiKey: the argument of an application
    maskOut,              \* maskApiKey: what the application returned
    env,                  \* process.env.DEEPSEEK_API_KEY
    settingsKey,          \* workspace setting enhancePrompt.deepseekApiKey
    activation,           \* the context of the running activation, 0 if none
    launched,             \* number of activate() calls so far
    serviceInstance,      \* StorageService.instance: 0 for null, or an id
    services,             \* the StorageService objects made: their context
    provider,             \* the ClarifyViewProvider of the running activation
    serviceLog,           \* history: the uses of StorageService, in order
    busInstance,          \* StorageEventManager.instance: 0 for null, or an id
    buses,                \* the StorageEventManager objects made: their listeners
    dispatch,             \* the dispatchEvent that is running
    lastDispatch,         \* history: the dispatchEvent that returned, until the
                          \*   next call is made
    lastNotice,           \* history: the secret-change notification handled,
                          \*   until the next call is made
    since,                \* history: the registrations in place on each object
                          \*   that were made since it was made or torn down
    wiped,                \* history: the event types a teardown found
                          \*   listeners for
    justDisposed,         \* history: the object the step just taken tore down
    busCalls,             \* history: number of calls made to the event manager
    pending,              \* the secret keys of whose change the host has yet
                          \*   to notify this window
    remote                \* history: the values another window has stored
                          \*   under deepSeekApiKey, in order

\* The state of state.ts and of the operations of StorageService.
storageVars == <<isTemporaryProfile, inMemorySecrets, vault, globalState,
                 calls, accepted, vaultAccessed, memAccessed, storeErrors>>

\* The state of an application of maskApiKey.
maskVars == <<maskIn, maskOut>>

\* Where the clarify / enhance flows look for a credential besides the
\* stored secret.
credentialVars == <<env, settingsKey>>

\* activate / deactivate and the StorageService singleton.
lifecycleVars == <<activation, launched, serviceInstance, services, provider,
                   serviceLog>>

\* StorageEventManager and the handler of the host's notifications.
busVars == <<busInstance, buses, dispatch, lastDispatch, lastNotice, since,
             wiped, justDisposed, busCalls>>

\* Another window of the same editor, and the host's notifications of what
\* it stored.
windowVars == <<pending, remote>>

\* What the operations of the storage layer leave alone.
extensionVars == <<maskVars, credentialVars, lifecycleVars, busVars,
                   windowVars>>

vars == <<storageVars, extensionVars>>

\* Number of operations started in one run; each is an activation of its own.
MaxOps == 2

Slots == 1..MaxOps

\* Number of store accesses the host fails with a StoreError in one run.
MaxStoreErrors == 1
\* Length of the longest string maskApiKey is applied to.
MaxMaskLen == 10
\* Number of times the host activates the extension in one process.
MaxActivations == 2

\* Number of uses of StorageService recorded in one run.
MaxServiceCalls == 7
\* Number of listener functions there are to register.
MaxListeners == 2

\* Number of calls made to the event manager from outside (listeners added
\* and removed, events dispatched, notifications of the host) in one run.
MaxBusCalls == 3

\* Number of times another window stores a key in one run.
MaxRemoteStores == 1

(***************************************************************************)
(* Values                                                                  *)
(***************************************************************************)
\* A string is a sequence of one-character strings; undefined is a value
\* that is no string.
Undefined == <<"undefined">>

\* undefined for the preference fields (model, temperature), which are
\* modelled as atoms.
NoPref == "undefined"

SecretKeys == {"deepSeekApiKey", "authNonce"}

\* GlobalStateKey (model, temperature), plus a key an older version left.
GlobalKeys == {"model", "temperature", "legacyKey"}

Targets == SecretKeys \cup GlobalKeys

DEFAULT_CONFIG == [model |-> "deepseek-chat", temperature |-> "0.2"]

SUPPORTED_MODELS == {"deepseek-chat", "deepseek-reasoner", "deepseek-coder"}

\* Inputs the operations are called with.
ApiKeyInputs == {<< >>, <<" ">>, <<"s", "k">>}
ConfigKeyInputs == {Undefined, <<"s", "k", "2">>}
NonceInputs == {<< >>, <<" ">>, <<"n">>}
ModelInputs == {NoPref, "deepseek-reasoner"}
TemperatureInputs == {NoPref, "0.1", "0.9"}
WebviewKeyInputs == {<< >>, <<"s", "k", "3">>}
WebviewModelInputs == {"", "gpt-4"}

\* JavaScript truthiness of (string | undefined).
Truthy(v) == v # Undefined /\ v # << >>

RECURSIVE TrimStart(_)
TrimStart(s) ==
    IF s = << >> THEN << >>
    ELSE IF Head(s) = " " THEN TrimStart(Tail(s)) ELSE s

RECURSIVE TrimEnd(_)
TrimEnd(s) ==
    IF s = << >> THEN << >>
    ELSE IF s[Len(s)] = " " THEN TrimEnd(SubSeq(s, 1, Len(s) - 1)) ELSE s

\* String.prototype.trim
Trim(s) == TrimEnd(TrimStart(s))

EmptySecrets == [k \in SecretKeys |-> Undefined]
EmptyGlobal == [k \in GlobalKeys |-> NoPref]

NoCfg == [deepSeekApiKey |-> Undefined, model |-> NoPref, temperature |-> NoPref]
NoHttp == [kind |-> "none", status |-> 0]

\* Answers of the upstream endpoint: a response with a status, or a
\* transport error (fetch rejects).
HttpOutcomes ==
    {[kind |-> "response", status |-> s] : s \in {200, 204, 401, 500}}
        \cup {[kind |-> "error", status |-> 0]}

\* An activation: the operation and its arguments (op, cfg, key, val), where
\* it stands (pc), the writes it has issued (w), what resetAllState has
\* still to delete (todo), what it returned (st: "ok" or "failed" for a
\* rejection; ret: the boolean or the text; out: the value read), its
\* request to the upstream endpoint (http, nFetch), the error message it
\* showed (msg), its chat-completion requests (nChat), the store reads it
\* has completed (nRead) and the display configuration it assembles
\* (display), and, as history, the stores when it began (pre) and the
\* activations it overlapped with (overlap).
NoDisplay == [hasApiKey |-> FALSE, apiKeyMasked |-> << >>,
              model |-> NoPref, temperature |-> NoPref]

IdleCall ==
    [op |-> "none", pc |-> "idle", cfg |-> NoCfg, key |-> "deepSeekApiKey",
     val |-> Undefined, w |-> [t \in Targets |-> "none"], todo |-> {},
     st |-> "none", ret |-> "none", out |-> NoCfg, http |-> NoHttp,
     nFetch |-> 0, msg |-> "none", nChat |-> 0,
     nRead |-> 0, display |-> NoDisplay,
     pre |-> [sec |-> EmptySecrets, glob |-> EmptyGlobal, remote |-> 0,
              pending |-> 0],
     overlap |-> {}]

(***************************************************************************)
(* state.ts: the adapters                                                  *)
(***************************************************************************)
\* storeSecret as it would be if it normalised the value it stores.
StoreSecretTrimmed(store, key, value) ==
    IF Truthy(value) THEN [store EXCEPT ![key] = Trim(value)]
    ELSE [store EXCEPT ![key] = Undefined]

\* The effect of storeSecret on its backend: a falsy value deletes.
StoreSecretEffect(store, key, value) ==
    IF Truthy(value) THEN [store EXCEPT ![key] = value]
    ELSE [store EXCEPT ![key] = Undefined]

\* The branch as it would be if the flag were not consulted.
UsesVaultAlways == FALSE

\* The backend storeSecret, getSecret, updateSecretsBatch and resetAllState
\* branch to.
UsesMemory == isTemporaryProfile

\* The secrets as getSecret sees them.
Secrets == IF UsesMemory THEN inMemorySecrets ELSE vault

\* getGlobalState(context, key, defaultValue)
GetGlobalState(key, defaultValue) ==
    IF globalState[key] = NoPref THEN defaultValue ELSE globalState[key]

\* The keys resetAllState would delete if it went by GlobalStateKey.
StaticGlobalStateKeys ==
    {k \in {"model", "temperature"} : globalState[k] # NoPref}

\* context.globalState.keys(): the keys that hold a value.
GlobalStateKeys == {k \in GlobalKeys : globalState[k] # NoPref}

\* getApiConfiguration, assembled from a secret that was read and the
\* preferences as they are now.
ApiConfigurationOf(secret) ==
    [deepSeekApiKey |-> secret,
     model |-> GetGlobalState("model", DEFAULT_CONFIG.model),
     temperature |-> GetGlobalState("temperature", DEFAULT_CONFIG.temperature)]

\* getApiConfiguration with no other operation in between its reads.
GetApiConfiguration == ApiConfigurationOf(Secrets["deepSeekApiKey"])

\* The batch as it would be if it carried every secret key.
BatchedSecretUpdatesAll(cfg) == SecretKeys

\* updateApiConfiguration: the keys of batchedSecretUpdates.
BatchedSecretUpdates(cfg) == {"deepSeekApiKey"}

\* updateApiConfiguration: the keys of batchedGlobalUpdates.
BatchedGlobalUpdates(cfg) ==
    {k \in {"model", "temperature"} : cfg[k] # NoPref}

\* resetAllState: secretKeys
ResetSecretKeys == {"deepSeekApiKey", "authNonce"}

\* Response.ok
ResponseOk(r) == r.kind = "response" /\ r.status >= 200 /\ r.status <= 299

\* The local rejection as it would be without the trim.
IsEmptyOnly(apiKey) == ~Truthy(apiKey)

\* validateApiKey's local rejection, before any request.
IsBlank(apiKey) == ~Truthy(apiKey) \/ Len(Trim(apiKey)) = 0

\* The placeholder character of maskApiKey.
Placeholder == "*"

\* '*'.repeat(n)
Repeat(n) == [i \in 1..n |-> Placeholder]

\* maskApiKey as it would be if it compressed the middle part.
MaskApiKeyCompressed(apiKey) ==
    IF ~Truthy(apiKey) THEN << >>
    ELSE IF Len(apiKey) <= 8 THEN Repeat(Len(apiKey))
    ELSE SubSeq(apiKey, 1, 4) \o Repeat(4)
            \o SubSeq(apiKey, Len(apiKey) - 3, Len(apiKey))

\* maskApiKey(apiKey)
MaskApiKey(apiKey) ==
    IF ~Truthy(apiKey) THEN << >>
    ELSE IF Len(apiKey) <= 8 THEN Repeat(Len(apiKey))
    ELSE SubSeq(apiKey, 1, 4) \o Repeat(Len(apiKey) - 8)
            \o SubSeq(apiKey, Len(apiKey) - 3, Len(apiKey))

(***************************************************************************)
(* Activations                                                             *)
(***************************************************************************)
InFlight(c) == {t \in Targets : c.w[t] = "inflight"}
Failed(c) == {t \in Targets : c.w[t] = "fail"}

\* c has returned and nothing it issued is still in flight.
Finished(c) == c.pc = "done" /\ InFlight(c) = {}

Unfinished(q) == calls[q].pc # "idle" /\ ~Finished(calls[q])

\* The slot a new activation takes.
FreeSlot(p) ==
    /\ calls[p].pc = "idle"
    /\ \A q \in Slots : q < p => calls[q].pc # "idle"

\* The value a write of activation c to target t carries.
WriteValue(c, t) ==
    IF c.op = "resetAll" THEN (IF t \in SecretKeys THEN Undefined ELSE NoPref)
    ELSE IF t \in GlobalKeys THEN c.cfg[t]
    ELSE IF c.op \in {"updateConfiguration", "saveConfig"}
           THEN c.cfg.deepSeekApiKey
    ELSE c.val

\* Activation p begins as record c: the stores as they are and the
\* activations it overlaps with are recorded.
CallsBegin(p, c) ==
    [q \in Slots |->
        IF q = p
          THEN [c EXCEPT !.pre = [sec |-> Secrets, glob |-> globalState,
                                  remote |-> Len(remote),
                                  pending |-> Len(pending)],
                         !.overlap = {r \in Slots : Unfinished(r)}]
          ELSE IF Unfinished(q)
                 THEN [calls[q] EXCEPT !.overlap = calls[q].overlap \cup {p}]
                 ELSE calls[q]]

\* Promise.all over the writes an activation awaits: it rejects with the
\* first rejection and fulfils when every write has.
AllRejected(c) == Failed(c) # {}
AllFulfilled(c) == Failed(c) = {} /\ InFlight(c) = {}

\* The in-memory map after storeSecret(key, WriteValue) for each key of keys.
MemoryAfter(c, keys) ==
    [k \in SecretKeys |->
        IF k \in keys
          THEN StoreSecretEffect(inMemorySecrets, k, WriteValue(c, k))[k]
          ELSE inMemorySecrets[k]]

\* storeSecret / updateSecretsBatch called by activation c for keys: in the
\* temporary profile the entries are applied at once, otherwise one vault
\* write per entry is issued.
WithSecretWrites(c, keys) ==
    [c EXCEPT !.w = [t \in Targets |->
        IF t \in keys THEN (IF UsesMemory THEN "ok" ELSE "inflight")
        ELSE c.w[t]]]

\* StorageService.setApiKey after its storeSecret: true, or the catch's false.
SetApiKeyResult(c) == IF AllRejected(c) THEN "false" ELSE "true"

\* The await as it would be if a rejection were swallowed.
ResumeSwallowing(c) ==
    IF c.pc # "awaitWrites" THEN c
    ELSE IF ~(AllRejected(c) \/ AllFulfilled(c)) THEN c
    ELSE [c EXCEPT !.pc = "done", !.st = "ok", !.ret = "true"]

\* An activation that awaits its writes, after a change of their state: it
\* returns when its Promise.all settles.
Resume(c) ==
    IF c.pc # "awaitWrites" THEN c
    ELSE IF ~(AllRejected(c) \/ AllFulfilled(c)) THEN c
    ELSE IF c.op = "setApiKey"
      THEN [c EXCEPT !.pc = "done", !.st = "ok", !.ret = SetApiKeyResult(c)]
    ELSE [c EXCEPT !.pc = "done",
                   !.st = IF AllRejected(c) THEN "failed" ELSE "ok"]

\* The result as it would be if any answer at all counted as validity.
ValidateAnyResponse(r) == r.kind = "response"

\* validateApiKey's result for an answer of the endpoint: response.ok, and
\* false from the catch.
ValidateResult(r) == IF r.kind = "error" THEN FALSE ELSE ResponseOk(r)

BoolStr(b) == IF b THEN "true" ELSE "false"

\* The storage layer when the process has started.
StorageInit ==
    /\ isTemporaryProfile \in BOOLEAN
    /\ inMemorySecrets = EmptySecrets
    /\ vault \in {EmptySecrets} \cup
          (IF isTemporaryProfile THEN {}
           ELSE {[EmptySecrets EXCEPT !["deepSeekApiKey"] = <<"s", "k">>]})
    /\ globalState \in {EmptyGlobal, [EmptyGlobal EXCEPT !["legacyKey"] = "v0"]}
    /\ calls = [p \in Slots |-> IdleCall]
    /\ accepted = {vault["deepSeekApiKey"]} \ {Undefined}
    /\ vaultAccessed = FALSE
    /\ memAccessed = FALSE
    /\ storeErrors = 0

\* No application of maskApiKey.
NotMasked == <<"none">>
MaskIdle == maskIn = << >> /\ maskOut = NotMasked

\* No credential in the environment or in the workspace settings.
NoCredentials == env = Undefined /\ settingsKey = Undefined

NoProvider == [context |-> 0, storageService |-> 0]

\* The process has started; the extension has not been activated.
LifecycleInit ==
    /\ activation = 0
    /\ launched = 0
    /\ serviceInstance = 0
    /\ services = << >>
    /\ provider = NoProvider
    /\ serviceLog = << >>

\* StorageEventType: the kinds of event listened for and dispatched in a
\* run (API_KEY_CHANGED, CONFIG_CHANGED).
EventTypes == {"apiKeyChanged", "configChanged"}

Listeners == 1..MaxListeners

NoData == [key |-> "none"]

\* No dispatchEvent: the object and the event (inst, type, data), the entry
\* forEach visits next (idx), the listeners registered when it began
\* (start), those called so far, in order (delivered), those that threw
\* (threw), those removed meanwhile (removed), whether it was called on an
\* object that had been torn down (stale), whether it called a listener
\* whose registration is older than the object's teardown (calledOld), and
\* how it ended (result).
IdleDispatch ==
    [active |-> FALSE, inst |-> 0, type |-> "none", data |-> NoData,
     idx |-> 0, start |-> << >>, delivered |-> << >>, threw |-> {},
     removed |-> {}, stale |-> FALSE, calledOld |-> FALSE,
     aborted |-> FALSE, result |-> "none"]

NoNotice == [key |-> "none", events |-> << >>]

\* new Map(): no listener for any event type.
EmptyRegistry == [t \in EventTypes |-> << >>]

\* The process has started: no StorageEventManager has been made.
BusInit ==
    /\ busInstance = 0
    /\ buses = << >>
    /\ dispatch = IdleDispatch
    /\ lastDispatch = IdleDispatch
    /\ lastNotice = NoNotice
    /\ since = << >>
    /\ wiped = << >>
    /\ justDisposed = 0
    /\ busCalls = 0

\* No other window has stored anything, and no notification is pending.
WindowInit == pending = << >> /\ remote = << >>

Init ==
    /\ StorageInit /\ MaskIdle /\ NoCredentials /\ LifecycleInit /\ BusInit
    /\ WindowInit

\* The history of backend use, when activation c touches the secrets keys.
TouchSecrets(keys) ==
    /\ memAccessed' = (memAccessed \/ (UsesMemory /\ keys # {}))
    /\ vaultAccessed' = (vaultAccessed \/ (~UsesMemory /\ keys # {}))

\* updateApiConfiguration(context, cfg): both batches are started, then
\* awaited together.
UpdateApiConfiguration(p, op, secret, model, temperature) ==
    /\ FreeSlot(p)
    /\ LET cfg == [NoCfg EXCEPT !.deepSeekApiKey = secret, !.model = model,
                                !.temperature = temperature]
           c0 == [IdleCall EXCEPT
                    !.op = op, !.pc = "awaitWrites", !.cfg = cfg,
                    !.w = [t \in Targets |->
                             IF t \in BatchedGlobalUpdates(cfg)
                               THEN "inflight" ELSE "none"]]
           c1 == WithSecretWrites(c0, BatchedSecretUpdates(cfg))
       IN /\ calls' = CallsBegin(p, Resume(c1))
          /\ inMemorySecrets' =
                IF UsesMemory THEN MemoryAfter(c0, BatchedSecretUpdates(cfg))
                ELSE inMemorySecrets
          /\ TouchSecrets(BatchedSecretUpdates(cfg))
    /\ UNCHANGED <<extensionVars, isTemporaryProfile, vault, globalState, accepted, storeErrors>>

\* StorageService.updateConfiguration(config)
UpdateConfiguration(p) ==
    \E s \in ConfigKeyInputs, m \in ModelInputs, t \in TemperatureInputs :
        UpdateApiConfiguration(p, "updateConfiguration", s, m, t)

\* ClarifyViewProvider.saveConfig(apiKey, model), on a 'saveConfig' message.
SaveConfig(p) ==
    \E apiKey \in WebviewKeyInputs, model \in WebviewModelInputs :
        UpdateApiConfiguration(p, "saveConfig", apiKey,
            IF model # "" THEN model ELSE NoPref, NoPref)

\* storeSecret(context, key, value)
StoreSecret(p, op, key, value) ==
    /\ FreeSlot(p)
    /\ LET c0 == [IdleCall EXCEPT !.op = op, !.pc = "awaitWrites",
                                  !.key = key, !.val = value]
           c1 == WithSecretWrites(c0, {key})
       IN /\ calls' = CallsBegin(p, Resume(c1))
          /\ inMemorySecrets' =
                IF UsesMemory THEN MemoryAfter(c0, {key}) ELSE inMemorySecrets
          /\ TouchSecrets({key})
    /\ UNCHANGED <<extensionVars, isTemporaryProfile, vault, globalState, accepted, storeErrors>>

\* StorageService.removeApiKey()
RemoveApiKey(p) == StoreSecret(p, "removeApiKey", "deepSeekApiKey", Undefined)

\* StorageService.setAuthNonce(nonce)
SetAuthNonce(p) ==
    \E nonce \in NonceInputs : StoreSecret(p, "setAuthNonce", "authNonce", nonce)

\* StorageService.clearAuthNonce()
ClearAuthNonce(p) == StoreSecret(p, "clearAuthNonce", "authNonce", Undefined)

\* context.secrets.store / delete of write t of activation c has succeeded.
VaultAfter(c, t) ==
    IF t \in SecretKeys THEN StoreSecretEffect(vault, t, WriteValue(c, t))
    ELSE vault

\* The preference store as it would be if a write merged with a value
\* another write left there.
GlobalAfterMerging(c, t) ==
    IF t \notin GlobalKeys THEN globalState
    ELSE IF globalState[t] \in {NoPref, WriteValue(c, t)} \/ t # "temperature"
      THEN [globalState EXCEPT ![t] = WriteValue(c, t)]
    ELSE [globalState EXCEPT ![t] = "0.5"]

\* context.globalState.update(key, value) has succeeded.
GlobalAfter(c, t) ==
    IF t \in GlobalKeys THEN [globalState EXCEPT ![t] = WriteValue(c, t)]
    ELSE globalState

\* A write of an activation that awaits all its writes settles; the
\* activation resumes when its Promise.all does.
SettleWrite(p, t, ok) ==
    /\ calls[p].w[t] = "inflight"
    /\ calls[p].pc # "resetLoop"
    /\ ok \/ storeErrors < MaxStoreErrors
    /\ storeErrors' = IF ok THEN storeErrors ELSE storeErrors + 1
    /\ calls' = [calls EXCEPT ![p] =
          Resume([calls[p] EXCEPT !.w[t] = IF ok THEN "ok" ELSE "fail"])]
    /\ vault' = IF ok THEN VaultAfter(calls[p], t) ELSE vault
    /\ globalState' = IF ok THEN GlobalAfter(calls[p], t) ELSE globalState
    /\ UNCHANGED <<extensionVars, isTemporaryProfile, inMemorySecrets, accepted,
                   vaultAccessed, memAccessed>>

WriteSucceeds == \E p \in Slots, t \in Targets : SettleWrite(p, t, TRUE)
WriteFails == \E p \in Slots, t \in Targets : SettleWrite(p, t, FALSE)

\* validateApiKey(apiKey) up to its request: a blank candidate is answered
\* false at once, otherwise one GET is sent.
ValidateBegin(c, apiKey) ==
    IF IsBlank(apiKey)
      THEN [c EXCEPT !.val = apiKey, !.pc = "done", !.st = "ok", !.ret = "false"]
      ELSE [c EXCEPT !.val = apiKey, !.pc = "validating",
                     !.http = [kind |-> "pending", status |-> 0],
                     !.nFetch = c.nFetch + 1]

\* validateApiKey(apiKey), called on its own.
ValidateApiKey(p) ==
    \E apiKey \in ApiKeyInputs :
        /\ FreeSlot(p)
        /\ calls' = CallsBegin(p,
              ValidateBegin([IdleCall EXCEPT !.op = "validateApiKey"], apiKey))
        /\ UNCHANGED <<extensionVars, isTemporaryProfile, inMemorySecrets, vault, globalState,
                       accepted, vaultAccessed, memAccessed, storeErrors>>

\* StorageService.setApiKey(apiKey), up to the validation's request.
SetApiKeyTo(p, apiKey) ==
    /\ FreeSlot(p)
    /\ calls' = CallsBegin(p,
          ValidateBegin([IdleCall EXCEPT !.op = "setApiKey"], apiKey))
    /\ UNCHANGED <<extensionVars, isTemporaryProfile, inMemorySecrets, vault, globalState,
                   accepted, vaultAccessed, memAccessed, storeErrors>>

SetApiKey(p) == \E apiKey \in ApiKeyInputs : SetApiKeyTo(p, apiKey)

\* setApiKey as it would be if it stored the key whatever the validator said.
StoresUnvalidated(c, valid) == c.op = "setApiKey"

\* setApiKey goes on to storeSecret only when validateApiKey returned true;
\* validateApiKey on its own stores nothing.
StoresValidated(c, valid) == valid /\ c.op = "setApiKey"

\* The endpoint answers (or the transport fails): validateApiKey returns,
\* and setApiKey goes on to store an accepted key.
FetchSettles(p) ==
    \E r \in HttpOutcomes :
        /\ calls[p].pc = "validating"
        /\ LET c == [calls[p] EXCEPT !.http = r]
               valid == ValidateResult(r)
               stores == StoresValidated(c, valid)
               c1 == IF ~stores
                       THEN [c EXCEPT !.pc = "done", !.st = "ok",
                                      !.ret = BoolStr(valid)]
                       ELSE Resume(WithSecretWrites(
                                [c EXCEPT !.pc = "awaitWrites"],
                                {"deepSeekApiKey"}))
           IN /\ calls' = [calls EXCEPT ![p] = c1]
              /\ accepted' = IF valid THEN accepted \cup {c.val} ELSE accepted
              /\ inMemorySecrets' =
                    IF stores /\ UsesMemory
                      THEN MemoryAfter(c, {"deepSeekApiKey"})
                      ELSE inMemorySecrets
              /\ TouchSecrets(IF stores THEN {"deepSeekApiKey"} ELSE {})
        /\ UNCHANGED <<extensionVars, isTemporaryProfile, vault, globalState, storeErrors>>

\* a || b || '' of JavaScript, for strings and undefined.
FirstTruthy(a, b) == IF Truthy(a) THEN a ELSE IF Truthy(b) THEN b ELSE << >>

\* The flow's check as it would be if the credential were not trimmed.
MissingCredentialUntrimmed(apiKey) == ~Truthy(apiKey)

\* if (!apiKey.trim()) of clarifyText; if (!apiKey) of enhanceText, whose
\* apiKey is trimmed already.
MissingCredential(apiKey) == Len(Trim(apiKey)) = 0

\* clarifyText once getConfiguration has returned config (c.out): without a
\* credential the error message is shown and '' returned; otherwise the
\* chat-completion request is sent.
ClarifyAfterConfig(c) ==
    LET apiKey == FirstTruthy(c.out.deepSeekApiKey, env) IN
    IF MissingCredential(apiKey)
      THEN [c EXCEPT !.pc = "done", !.st = "ok", !.msg = "missingKey",
                     !.ret = ""]
      ELSE [c EXCEPT !.pc = "chatting", !.st = "none", !.val = apiKey,
                     !.nChat = c.nChat + 1]

\* testApiKey once getApiKey has returned (c.out): without a stored key
\* false is returned, otherwise validateApiKey is called with it.
TestAfterGetApiKey(c) ==
    LET keyToTest == c.out.deepSeekApiKey IN
    IF ~Truthy(keyToTest)
      THEN [c EXCEPT !.pc = "done", !.st = "ok", !.ret = "false"]
      ELSE ValidateBegin([c EXCEPT !.st = "none"], keyToTest)

\* StorageService.hasApiKey, for the key getApiKey returned.
HasApiKey(apiKey) == Truthy(apiKey) /\ Len(Trim(apiKey)) > 0

\* getDisplayConfiguration after one of its three reads of the secret
\* returned apiKey: the first belongs to getConfiguration, which then reads
\* the preferences; the second to hasApiKey; the third to getMaskedApiKey,
\* after which the result is returned.
DisplayAfterRead(c, apiKey) ==
    LET c1 == [c EXCEPT !.nRead = c.nRead + 1, !.pc = "readSecret",
                        !.st = "none"]
    IN IF c.nRead = 0
         THEN [c1 EXCEPT !.display.model = ApiConfigurationOf(apiKey).model,
                         !.display.temperature =
                             ApiConfigurationOf(apiKey).temperature]
       ELSE IF c.nRead = 1
         THEN [c1 EXCEPT !.display.hasApiKey = HasApiKey(apiKey)]
       ELSE [c1 EXCEPT !.pc = "done", !.st = "ok",
                       !.display.apiKeyMasked =
                           IF Truthy(apiKey) THEN MaskApiKey(apiKey)
                           ELSE << >>]

\* An operation that began with getSecret, after the read.
AfterRead(c) ==
    IF c.op = "clarifyText" THEN ClarifyAfterConfig(c)
    ELSE IF c.op = "testApiKey" THEN TestAfterGetApiKey(c)
    ELSE IF c.op = "getDisplayConfiguration"
      THEN DisplayAfterRead(c, c.out.deepSeekApiKey)
    ELSE c

\* The display value as it would be if the key were shown as it is.
ReadResultUnmasked(op, v) ==
    IF op \in {"getConfiguration", "clarifyText"} THEN ApiConfigurationOf(v)
    ELSE [NoCfg EXCEPT !.deepSeekApiKey = v]

\* What an operation that began with getSecret returns for the secret v it
\* read: getApiConfiguration (also under clarifyText) adds the preferences,
\* getMaskedApiKey masks a truthy key and answers '' otherwise, getApiKey
\* and getAuthNonce return v.
ReadResult(op, v) ==
    IF op \in {"getConfiguration", "clarifyText"} THEN ApiConfigurationOf(v)
    ELSE IF op = "getMaskedApiKey"
      THEN [NoCfg EXCEPT !.deepSeekApiKey =
                            IF Truthy(v) THEN MaskApiKey(v) ELSE << >>]
    ELSE [NoCfg EXCEPT !.deepSeekApiKey = v]

\* getSecret(context, key), and getApiConfiguration, which begins with it:
\* the in-memory map is read at once, the vault is asked.
GetSecret(p, op, key) ==
    /\ FreeSlot(p)
    /\ LET c == [IdleCall EXCEPT !.op = op, !.key = key]
       IN calls' = CallsBegin(p,
            IF UsesMemory
              THEN AfterRead([c EXCEPT !.pc = "done", !.st = "ok",
                      !.out = ReadResult(op, inMemorySecrets[key])])
              ELSE [c EXCEPT !.pc = "readSecret"])
    /\ TouchSecrets({key})
    /\ UNCHANGED <<extensionVars, isTemporaryProfile, inMemorySecrets, vault, globalState,
                   accepted, storeErrors>>

\* StorageService.getApiKey()
GetApiKey(p) == GetSecret(p, "getApiKey", "deepSeekApiKey")

\* StorageService.getAuthNonce()
GetAuthNonce(p) == GetSecret(p, "getAuthNonce", "authNonce")

\* StorageService.getConfiguration()
GetConfiguration(p) == GetSecret(p, "getConfiguration", "deepSeekApiKey")

\* context.secrets.get settles: the value is returned, and
\* getApiConfiguration reads the preferences and returns.
ReadSettles(p, ok) ==
    /\ calls[p].pc = "readSecret"
    /\ ok \/ storeErrors < MaxStoreErrors
    /\ storeErrors' = IF ok THEN storeErrors ELSE storeErrors + 1
    /\ calls' = [calls EXCEPT ![p] =
          IF ~ok THEN [calls[p] EXCEPT !.pc = "done", !.st = "failed"]
          ELSE AfterRead([calls[p] EXCEPT !.pc = "done", !.st = "ok",
                  !.out = ReadResult(calls[p].op, vault[calls[p].key])])]
    /\ UNCHANGED <<extensionVars, isTemporaryProfile, inMemorySecrets, vault, globalState,
                   accepted, vaultAccessed, memAccessed>>

ReadSucceeds == \E p \in Slots : ReadSettles(p, TRUE)
ReadFails == \E p \in Slots : ReadSettles(p, FALSE)

\* resetAllState between two awaits of its loop, for activation p standing
\* as c with no write in flight: the next present preference key is
\* deleted; after the last, the secrets are deleted (all at once) and, in
\* the temporary profile, the in-memory map is cleared.
ResetAdvance(p, c, begins) ==
    \/ /\ c.todo # {}
       /\ \E k \in c.todo :
            LET c1 == [c EXCEPT !.pc = "resetLoop", !.todo = c.todo \ {k},
                                !.w[k] = "inflight"]
            IN calls' = IF begins THEN CallsBegin(p, c1)
                        ELSE [calls EXCEPT ![p] = c1]
       /\ UNCHANGED <<inMemorySecrets, vaultAccessed, memAccessed>>
    \/ /\ c.todo = {}
       /\ LET c1 == Resume(WithSecretWrites([c EXCEPT !.pc = "awaitWrites"],
                                            ResetSecretKeys))
          IN calls' = IF begins THEN CallsBegin(p, c1)
                      ELSE [calls EXCEPT ![p] = c1]
       /\ inMemorySecrets' =
            IF UsesMemory THEN EmptySecrets ELSE inMemorySecrets
       /\ TouchSecrets(ResetSecretKeys)

\* StorageService.resetAll(): resetAllState up to its first await.
ResetAll(p) ==
    /\ FreeSlot(p)
    /\ ResetAdvance(p, [IdleCall EXCEPT !.op = "resetAll",
                                        !.todo = GlobalStateKeys], TRUE)
    /\ UNCHANGED <<extensionVars, isTemporaryProfile, vault, globalState, accepted, storeErrors>>

\* The deletion resetAllState's loop awaits settles: the loop goes on, or
\* the StoreError ends resetAllState.
ResetLoopSettles(p, ok) ==
    /\ calls[p].pc = "resetLoop"
    /\ ok \/ storeErrors < MaxStoreErrors
    /\ storeErrors' = IF ok THEN storeErrors ELSE storeErrors + 1
    /\ \E t \in InFlight(calls[p]) :
         IF ok
           THEN /\ globalState' = GlobalAfter(calls[p], t)
                /\ ResetAdvance(p, [calls[p] EXCEPT !.w[t] = "ok"], FALSE)
           ELSE /\ calls' = [calls EXCEPT ![p].w[t] = "fail",
                                          ![p].pc = "done", ![p].st = "failed"]
                /\ UNCHANGED <<globalState, inMemorySecrets, vaultAccessed,
                               memAccessed>>
    /\ UNCHANGED <<extensionVars, isTemporaryProfile, vault, accepted>>

ResetDeletionSucceeds == \E p \in Slots : ResetLoopSettles(p, TRUE)
ResetDeletionFails == \E p \in Slots : ResetLoopSettles(p, FALSE)

Next ==
    \/ \E p \in Slots : UpdateConfiguration(p)
    \/ \E p \in Slots : SaveConfig(p)
    \/ \E p \in Slots : RemoveApiKey(p)
    \/ \E p \in Slots : SetAuthNonce(p)
    \/ \E p \in Slots : ClearAuthNonce(p)
    \/ \E p \in Slots : SetApiKey(p)
    \/ \E p \in Slots : ValidateApiKey(p)
    \/ \E p \in Slots : FetchSettles(p)
    \/ \E p \in Slots : GetApiKey(p)
    \/ \E p \in Slots : GetAuthNonce(p)
    \/ \E p \in Slots : GetConfiguration(p)
    \/ \E p \in Slots : ResetAll(p)
    \/ WriteSucceeds
    \/ WriteFails
    \/ ReadSucceeds
    \/ ReadFails
    \/ ResetDeletionSucceeds
    \/ ResetDeletionFails

Spec == Init /\ [][Next]_vars

\* The key validator with the one operation that stores what it accepted:
\* validateApiKey on its own and under StorageService.setApiKey, with the
\* endpoint's answers and the settling of setApiKey's write.
NextValidator ==
    \/ \E p \in Slots : ValidateApiKey(p)
    \/ \E p \in Slots : SetApiKey(p)
    \/ \E p \in Slots : FetchSettles(p)
    \/ WriteSucceeds
    \/ WriteFails

SpecValidator == Init /\ [][NextValidator]_vars
\* The validator's scheduling: the host settles every store write it was
\* handed.  validateApiKey arms no timer and passes fetch no timeout or abort
\* signal, so nothing in the program makes FetchSettles happen: whether it
\* does is the endpoint's doing.
SpecValidatorFair == SpecValidator /\ WF_vars(WriteSucceeds \/ WriteFails)

(***************************************************************************)
(* The operations that write the two secrets                               *)
(***************************************************************************)
\* StorageService.updateConfiguration(config) with a partial that carries
\* the secret only.
UpdateSecret(p) ==
    \E s \in ConfigKeyInputs :
        UpdateApiConfiguration(p, "updateConfiguration", s, NoPref, NoPref)

NextSecrets ==
    \/ \E p \in Slots : SetAuthNonce(p)
    \/ \E p \in Slots : ClearAuthNonce(p)
    \/ \E p \in Slots : RemoveApiKey(p)
    \/ \E p \in Slots : SetApiKey(p)
    \/ \E p \in Slots : FetchSettles(p)
    \/ \E p \in Slots : UpdateSecret(p)
    \/ \E p \in Slots : ResetAll(p)
    \/ WriteSucceeds
    \/ WriteFails
    \/ ResetDeletionSucceeds
    \/ ResetDeletionFails

\* A preference key is present at the start, so that resetAllState's loop
\* has a deletion to await before it comes to the secrets.
InitSecrets == Init /\ globalState # EmptyGlobal

SpecSecrets == InitSecrets /\ [][NextSecrets]_vars

(***************************************************************************)
(* setApiKey over a key that may be stored already                         *)
(***************************************************************************)
\* Candidates that differ from the key an earlier session left.
ReplacementKeys == {<< >>, <<" ">>, <<"s", "k", "4">>}

\* StorageService.setApiKey(apiKey) with such a candidate.
ReplaceApiKey(p) == \E apiKey \in ReplacementKeys : SetApiKeyTo(p, apiKey)

NextSetKey ==
    \/ \E p \in Slots : ReplaceApiKey(p)
    \/ \E p \in Slots : FetchSettles(p)
    \/ WriteSucceeds
    \/ WriteFails

SpecSetKey == Init /\ [][NextSetKey]_vars

(***************************************************************************)
(* StorageService.testApiKey                                               *)
(***************************************************************************)
\* The argument of testApiKey: none, the empty string (what the webview
\* sends for an empty field), a blank string, a key.
TestKeyInputs == {Undefined, << >>, <<" ">>, <<"s", "k", "5">>}

\* StorageService.testApiKey(apiKey), up to its first await:
\* keyToTest = apiKey || await this.getApiKey().  A truthy argument goes to
\* validateApiKey at once; otherwise the stored key is read first (c.cfg
\* keeps the argument).
TestApiKey(p) ==
    \E apiKey \in TestKeyInputs :
        /\ FreeSlot(p)
        /\ LET c == [IdleCall EXCEPT !.op = "testApiKey",
                                     !.cfg.deepSeekApiKey = apiKey]
               reads == ~Truthy(apiKey)
           IN /\ calls' = CallsBegin(p,
                    IF ~reads THEN ValidateBegin(c, apiKey)
                    ELSE IF UsesMemory
                      THEN AfterRead([c EXCEPT !.pc = "done", !.st = "ok",
                              !.out = ReadResult("testApiKey",
                                         inMemorySecrets["deepSeekApiKey"])])
                    ELSE [c EXCEPT !.pc = "readSecret"])
              /\ TouchSecrets(IF reads THEN {"deepSeekApiKey"} ELSE {})
        /\ UNCHANGED <<extensionVars, isTemporaryProfile, inMemorySecrets,
                       vault, globalState, accepted, storeErrors>>

NextTestKey ==
    \/ \E p \in Slots : TestApiKey(p)
    \/ \E p \in Slots : ReplaceApiKey(p)
    \/ \E p \in Slots : FetchSettles(p)
    \/ ReadSucceeds
    \/ ReadFails
    \/ WriteSucceeds
    \/ WriteFails

SpecTestKey == Init /\ [][NextTestKey]_vars

(***************************************************************************)
(* StorageService.getDisplayConfiguration                                  *)
(***************************************************************************)
\* getDisplayConfiguration(), on a 'getConfig' message, up to its first
\* await of the vault.  In the temporary profile getSecret answers from the
\* map without waiting for the host, and the three reads follow one
\* another before any other handler runs.
GetDisplayConfiguration(p) ==
    /\ FreeSlot(p)
    /\ LET c == [IdleCall EXCEPT !.op = "getDisplayConfiguration"]
           v == inMemorySecrets["deepSeekApiKey"]
       IN calls' = CallsBegin(p,
            IF UsesMemory
              THEN [DisplayAfterRead(DisplayAfterRead(DisplayAfterRead(c, v),
                                                      v), v)
                      EXCEPT !.out = ReadResult("getDisplayConfiguration", v)]
              ELSE [c EXCEPT !.pc = "readSecret"])
    /\ TouchSecrets({"deepSeekApiKey"})
    /\ UNCHANGED <<extensionVars, isTemporaryProfile, inMemorySecrets, vault,
                   globalState, accepted, storeErrors>>

NextDisplayConfig ==
    \/ \E p \in Slots : GetDisplayConfiguration(p)
    \/ \E p \in Slots : RemoveApiKey(p)
    \/ \E p \in Slots : UpdateSecret(p)
    \/ ReadSucceeds
    \/ ReadFails
    \/ WriteSucceeds
    \/ WriteFails

SpecDisplayConfig == Init /\ [][NextDisplayConfig]_vars

(***************************************************************************)
(* maskApiKey, applied to the strings of a bounded set                     *)
(***************************************************************************)
MaskAlphabet == {"s", "k"}

\* The strings of length 0..MaxMaskLen.
MaskInputs == UNION {[1..n -> MaskAlphabet] : n \in 0..MaxMaskLen}

InitMask ==
    /\ StorageInit /\ isTemporaryProfile /\ globalState = EmptyGlobal
    /\ maskIn \in MaskInputs
    /\ maskOut = NotMasked
    /\ NoCredentials
    /\ LifecycleInit
    /\ BusInit
    /\ WindowInit

\* maskApiKey(maskIn) is called.
ApplyMaskApiKey ==
    /\ maskOut = NotMasked
    /\ maskOut' = MaskApiKey(maskIn)
    /\ UNCHANGED <<storageVars, maskIn, credentialVars, lifecycleVars,
                   busVars, windowVars>>

NextMask == ApplyMaskApiKey

SpecMask == InitMask /\ [][NextMask]_vars

(***************************************************************************)
(* The display of the key: a key is saved, then getMaskedApiKey            *)
(***************************************************************************)
\* The key of the display scenario, "sk-ABCDEFGHIJKLMNOP", and a short one.
ScenarioKey ==
    <<"s", "k", "-", "A", "B", "C", "D", "E", "F", "G", "H", "I", "J", "K",
      "L", "M", "N", "O", "P">>

DisplayKeyInputs == {ScenarioKey, <<"s", "k", "-", "A">>}

\* ClarifyViewProvider.saveConfig(apiKey, undefined) with a key to display.
SaveDisplayedKey(p) ==
    \E apiKey \in DisplayKeyInputs :
        UpdateApiConfiguration(p, "saveConfig", apiKey, NoPref, NoPref)

\* StorageService.getMaskedApiKey(): getApiKey, then maskApiKey.
GetMaskedApiKey(p) == GetSecret(p, "getMaskedApiKey", "deepSeekApiKey")

NextDisplay ==
    \/ \E p \in Slots : SaveDisplayedKey(p)
    \/ \E p \in Slots : RemoveApiKey(p)
    \/ \E p \in Slots : GetMaskedApiKey(p)
    \/ WriteSucceeds
    \/ WriteFails
    \/ ReadSucceeds
    \/ ReadFails

SpecDisplay == Init /\ [][NextDisplay]_vars

(***************************************************************************)
(* The clarify and enhance flows of extension.ts                           *)
(***************************************************************************)
\* What the environment variable, the workspace setting or a vault entry
\* left by an earlier session can hold.
CredentialValues == {Undefined, << >>, <<" ">>, <<"s", "k", "9">>}

InitClarify ==
    /\ isTemporaryProfile \in BOOLEAN
    /\ inMemorySecrets = EmptySecrets
    /\ vault \in IF isTemporaryProfile THEN {EmptySecrets}
                 ELSE {[EmptySecrets EXCEPT !["deepSeekApiKey"] = v] :
                          v \in CredentialValues \ {<< >>}}
    /\ globalState = EmptyGlobal
    /\ calls = [p \in Slots |-> IdleCall]
    /\ accepted = {}
    /\ vaultAccessed = FALSE
    /\ memAccessed = FALSE
    /\ storeErrors = 0
    /\ MaskIdle
    /\ env \in CredentialValues
    /\ settingsKey \in CredentialValues
    /\ LifecycleInit
    /\ BusInit
    /\ WindowInit

\* clarifyText(raw, context), up to the await of getConfiguration.
ClarifyText(p) ==
    GetSecret(p, "clarifyText", "deepSeekApiKey")

\* enhanceText(rawText), up to the await of getProjectProfile.
EnhanceText(p) ==
    /\ FreeSlot(p)
    /\ LET apiKey == Trim(FirstTruthy(settingsKey, env))
           c == [IdleCall EXCEPT !.op = "enhanceText", !.val = apiKey]
       IN calls' = CallsBegin(p,
            IF MissingCredential(apiKey)
              THEN [c EXCEPT !.pc = "done", !.st = "ok",
                             !.msg = "missingKey", !.ret = ""]
              ELSE [c EXCEPT !.pc = "profiling"])
    /\ UNCHANGED <<extensionVars, isTemporaryProfile, inMemorySecrets, vault,
                   globalState, accepted, vaultAccessed, memAccessed,
                   storeErrors>>

\* getProjectProfile has returned: enhanceText sends its request.
ProfileSettles(p) ==
    /\ calls[p].pc = "profiling"
    /\ calls' = [calls EXCEPT ![p].pc = "chatting",
                              ![p].nChat = calls[p].nChat + 1]
    /\ UNCHANGED <<extensionVars, isTemporaryProfile, inMemorySecrets, vault,
                   globalState, accepted, vaultAccessed, memAccessed,
                   storeErrors>>

\* The chat-completion request settles: its text is returned, or the flow
\* fails (fetch rejects, or the answer has no choices).
ChatSettles(p) ==
    /\ calls[p].pc = "chatting"
    /\ \E ok \in BOOLEAN :
         calls' = [calls EXCEPT ![p] =
            IF ok THEN [calls[p] EXCEPT !.pc = "done", !.st = "ok",
                                        !.ret = "text"]
            ELSE [calls[p] EXCEPT !.pc = "done", !.st = "failed"]]
    /\ UNCHANGED <<extensionVars, isTemporaryProfile, inMemorySecrets, vault,
                   globalState, accepted, vaultAccessed, memAccessed,
                   storeErrors>>

NextClarify ==
    \/ \E p \in Slots : ClarifyText(p)
    \/ \E p \in Slots : EnhanceText(p)
    \/ \E p \in Slots : RemoveApiKey(p)
    \/ \E p \in Slots : ProfileSettles(p)
    \/ \E p \in Slots : ChatSettles(p)
    \/ ReadSucceeds
    \/ ReadFails
    \/ WriteSucceeds
    \/ WriteFails

SpecClarify == InitClarify /\ [][NextClarify]_vars

(***************************************************************************)
(* activate / deactivate and the StorageService singleton                  *)
(***************************************************************************)
\* StorageService.getInstance(context): the instance it returns, and the
\* objects there are afterwards (a new one is bound to context).
InstanceAfterGet == IF serviceInstance = 0 THEN Len(services) + 1
                    ELSE serviceInstance
ServicesAfterGet(context) ==
    IF serviceInstance = 0 THEN Append(services, context) ELSE services

\* dispose as it would be if it left the reference in place.
StorageServiceDisposeKeeping == serviceInstance

\* StorageService.dispose(): the value of StorageService.instance after it.
StorageServiceDispose == 0

\* One use of StorageService: by whom, with which context, on which
\* instance, in which activation.
ServiceUse(caller, context, instance) ==
    [caller |-> caller, context |-> context, instance |-> instance,
     activation |-> context]

\* activate(context): getInstance(context), then the provider is made,
\* whose constructor calls getInstance(context) again, and the handler of
\* the host's secret-change notifications is subscribed.  The host passes a
\* new context to each activation.
Activate ==
    /\ activation = 0
    /\ ~dispatch.active
    /\ launched < MaxActivations
    /\ LET context == launched + 1 IN
       /\ activation' = context
       /\ launched' = context
       /\ serviceInstance' = InstanceAfterGet
       /\ services' = ServicesAfterGet(context)
       /\ provider' = [context |-> context, storageService |-> InstanceAfterGet]
       /\ serviceLog' = serviceLog \o
             << ServiceUse("activate", context, InstanceAfterGet),
                ServiceUse("provider", context, InstanceAfterGet) >>
    /\ justDisposed' = 0
    /\ lastDispatch' = IdleDispatch
    /\ lastNotice' = NoNotice
    /\ UNCHANGED <<storageVars, maskVars, credentialVars, windowVars, busInstance, buses,
                   dispatch, since, wiped, busCalls>>

\* The listeners as they would be if the teardown left them in place.
RegistryKept(reg) == reg

\* instance.listeners.clear()
RegistryCleared(reg) == EmptyRegistry

\* StorageEventManager.dispose(): the listeners of the current object are
\* cleared and the reference is nulled; nothing happens without an object.
StorageEventManagerDispose ==
    IF busInstance = 0
      THEN /\ justDisposed' = 0
           /\ UNCHANGED <<busInstance, buses, since, wiped>>
      ELSE /\ buses' = [buses EXCEPT
                          ![busInstance] = RegistryCleared(buses[busInstance])]
           /\ busInstance' = 0
           /\ since' = [since EXCEPT ![busInstance] = {}]
           /\ wiped' = [wiped EXCEPT
                          ![busInstance] =
                              {t \in EventTypes : buses[busInstance][t] # << >>}]
           /\ justDisposed' = busInstance

\* deactivate(): StorageService.dispose() and StorageEventManager.dispose();
\* the host then disposes the subscriptions of the context, the provider,
\* its view and the notification handler among them.
Deactivate ==
    /\ activation # 0
    /\ ~dispatch.active
    /\ activation' = 0
    /\ serviceInstance' = StorageServiceDispose
    /\ provider' = NoProvider
    /\ StorageEventManagerDispose
    /\ lastDispatch' = IdleDispatch
    /\ lastNotice' = NoNotice
    /\ UNCHANGED <<storageVars, maskVars, credentialVars, windowVars, launched, services,
                   serviceLog, dispatch, busCalls>>

\* A 'clarify' message: clarifyText(payload, this.context) begins with
\* StorageService.getInstance(context).
ClarifyGetsInstance ==
    /\ activation # 0
    /\ Len(serviceLog) < MaxServiceCalls
    /\ serviceInstance' = InstanceAfterGet
    /\ services' = ServicesAfterGet(provider.context)
    /\ serviceLog' = Append(serviceLog,
          ServiceUse("clarifyText", provider.context, InstanceAfterGet))
    /\ UNCHANGED <<storageVars, maskVars, credentialVars, windowVars, busVars,
                   activation, launched, provider>>

\* A 'saveConfig', 'testConfig' or 'getConfig' message: the provider calls
\* the StorageService its constructor obtained.
ProviderUsesService ==
    /\ activation # 0
    /\ Len(serviceLog) < MaxServiceCalls
    /\ serviceLog' = Append(serviceLog,
          ServiceUse("handleMessage", provider.context,
                     provider.storageService))
    /\ UNCHANGED <<storageVars, maskVars, credentialVars, windowVars, busVars,
                   activation, launched, serviceInstance, services, provider>>

NextSingleton ==
    \/ Activate
    \/ Deactivate
    \/ ClarifyGetsInstance
    \/ ProviderUsesService

\* The storage layer plays no part here: one of its initial states.
InitSingleton == Init /\ isTemporaryProfile /\ globalState = EmptyGlobal

SpecSingleton == InitSingleton /\ [][NextSingleton]_vars

(***************************************************************************)
(* StorageEventManager and the re-publication of secret changes            *)
(***************************************************************************)
\* A caller reaches an object through StorageEventManager.getInstance()
\* (ref 0: the current object, made if there is none) or through a
\* reference it kept (ref i: object i, which may have been torn down).
BusRefs == 0..Len(buses)

Resolve(ref) ==
    IF ref # 0 THEN ref
    ELSE IF busInstance # 0 THEN busInstance ELSE Len(buses) + 1

\* The objects, and the history kept for them, after the getInstance of a
\* caller that used ref.
BusesAfterGet(ref) ==
    IF ref = 0 /\ busInstance = 0 THEN Append(buses, EmptyRegistry) ELSE buses
SinceAfterGet(ref) ==
    IF ref = 0 /\ busInstance = 0 THEN Append(since, {}) ELSE since
WipedAfterGet(ref) ==
    IF ref = 0 /\ busInstance = 0 THEN Append(wiped, {}) ELSE wiped
InstanceAfterBusGet(ref) == IF ref = 0 THEN Resolve(ref) ELSE busInstance

\* A call from outside is made to the event manager.
BusCall ==
    /\ ~dispatch.active
    /\ busCalls < MaxBusCalls
    /\ busCalls' = busCalls + 1
    /\ justDisposed' = 0
    /\ lastDispatch' = IdleDispatch

\* Set.prototype.add / delete on the listeners of one event type.  While
\* forEach runs over them a deleted entry stays in place, emptied (0).
HasListener(entries, l) == \E i \in 1..Len(entries) : entries[i] = l
SetAdd(entries, l) ==
    IF HasListener(entries, l) THEN entries ELSE Append(entries, l)
SetDelete(entries, l) == SelectSeq(entries, LAMBDA x : x # l)
SetDeleteInForEach(entries, l) ==
    [i \in 1..Len(entries) |-> IF entries[i] = l THEN 0 ELSE entries[i]]
Live(entries) == SelectSeq(entries, LAMBDA x : x # 0)

\* addEventListener(type, listener)
AddEventListener ==
    \E ref \in BusRefs, t \in EventTypes, l \in Listeners :
        LET i == Resolve(ref) IN
        /\ BusCall
        /\ busInstance' = InstanceAfterBusGet(ref)
        /\ buses' = [BusesAfterGet(ref) EXCEPT ![i][t] = SetAdd(@, l)]
        /\ since' = [SinceAfterGet(ref) EXCEPT ![i] = @ \cup {<<t, l>>}]
        /\ wiped' = WipedAfterGet(ref)
        /\ lastNotice' = NoNotice
        /\ UNCHANGED <<storageVars, maskVars, credentialVars, windowVars, lifecycleVars,
                       dispatch>>

\* removeEventListener(type, listener)
RemoveEventListener ==
    \E ref \in BusRefs, t \in EventTypes, l \in Listeners :
        LET i == Resolve(ref) IN
        /\ BusCall
        /\ busInstance' = InstanceAfterBusGet(ref)
        /\ buses' = [BusesAfterGet(ref) EXCEPT ![i][t] = SetDelete(@, l)]
        /\ since' = [SinceAfterGet(ref) EXCEPT ![i] = @ \ {<<t, l>>}]
        /\ wiped' = WipedAfterGet(ref)
        /\ lastNotice' = NoNotice
        /\ UNCHANGED <<storageVars, maskVars, credentialVars, windowVars, lifecycleVars,
                       dispatch>>

\* dispatchEvent(event) on object i begins: forEach over the listeners of
\* event.type, if there are any.
DispatchBegins(i, t, key, regs) ==
    [IdleDispatch EXCEPT !.active = TRUE, !.inst = i, !.type = t,
                         !.data = [key |-> key], !.idx = 1,
                         !.start = regs[i][t],
                         !.stale = (i # busInstance /\ i <= Len(buses))]

\* dispatchEvent(event), called by a client of the event manager.
DispatchEvent ==
    \E ref \in BusRefs, t \in EventTypes :
        LET i == Resolve(ref) IN
        /\ BusCall
        /\ busInstance' = InstanceAfterBusGet(ref)
        /\ buses' = BusesAfterGet(ref)
        /\ since' = SinceAfterGet(ref)
        /\ wiped' = WipedAfterGet(ref)
        /\ dispatch' = DispatchBegins(i, t, "none", BusesAfterGet(ref))
        /\ lastNotice' = NoNotice
        /\ UNCHANGED <<storageVars, maskVars, credentialVars, windowVars,
                       lifecycleVars>>

\* The event as it would be if it carried the value stored under the key.
ApiKeyChangedEventWithValue(key) ==
    [type |-> "apiKeyChanged", data |-> [key |-> key, value |-> vault[key]]]

\* The event the notification handler publishes.
ApiKeyChangedEvent(key) == [type |-> "apiKeyChanged", data |-> [key |-> key]]

\* The handler activate subscribed to context.secrets.onDidChange, called
\* with event.key = key: it re-publishes a change of 'deepSeekApiKey' and
\* does nothing for another key.
OnDidChangeSecret(key) ==
    /\ activation # 0
    /\ BusCall
    /\ IF key = "deepSeekApiKey"
         THEN /\ busInstance' = InstanceAfterBusGet(0)
              /\ buses' = BusesAfterGet(0)
              /\ since' = SinceAfterGet(0)
              /\ wiped' = WipedAfterGet(0)
              /\ dispatch' = DispatchBegins(Resolve(0), "apiKeyChanged",
                                            key, BusesAfterGet(0))
              /\ lastNotice' = [key |-> key,
                                events |-> <<ApiKeyChangedEvent(key)>>]
         ELSE /\ lastNotice' = [key |-> key, events |-> << >>]
              /\ UNCHANGED <<busInstance, buses, since, wiped, dispatch>>
    /\ UNCHANGED <<storageVars, maskVars, credentialVars, lifecycleVars>>

\* context.secrets.onDidChange fires for some key, changed in this window
\* or in another.
HostSecretChanged ==
    \E key \in SecretKeys : OnDidChangeSecret(key) /\ UNCHANGED windowVars

\* The entry forEach visits next: the first from idx on that was not
\* deleted; 0 when there is none.
NextEntry(entries, idx) ==
    IF \E j \in idx..Len(entries) : entries[j] # 0
      THEN CHOOSE j \in idx..Len(entries) :
              /\ entries[j] # 0
              /\ \A k \in idx..(j - 1) : entries[k] = 0
      ELSE 0

\* What a listener does when it is called.
ListenerBehaviours == {"return", "throw", "add", "remove"}

\* The catch of dispatchEvent as it would be if it ended the dispatch.
AbortOnThrow(d) == [d EXCEPT !.aborted = TRUE]

\* The catch of dispatchEvent: the error is logged, forEach goes on.
AfterThrow(d) == d

\* forEach calls the next listener, which returns, throws, or registers or
\* removes a listener of the same event type before it returns.
ListenerCalled ==
    \E b \in ListenerBehaviours, l2 \in Listeners :
        LET d == dispatch
            entries == buses[d.inst][d.type]
            j == NextEntry(entries, d.idx)
            l == entries[j]
            d1 == [d EXCEPT !.idx = j + 1,
                            !.delivered = Append(@, l),
                            !.threw = IF b = "throw" THEN @ \cup {l} ELSE @,
                            !.calledOld = @ \/ <<d.type, l>> \notin since[d.inst],
                            !.removed = IF b = "remove" THEN @ \cup {l2}
                                        ELSE @]
        IN /\ d.active /\ ~d.aborted
           /\ j # 0
           /\ b \in {"return", "throw"} => l2 = 1
           /\ dispatch' = IF b = "throw" THEN AfterThrow(d1) ELSE d1
           /\ buses' = [buses EXCEPT ![d.inst][d.type] =
                 IF b = "add" THEN SetAdd(@, l2)
                 ELSE IF b = "remove" THEN SetDeleteInForEach(@, l2)
                 ELSE @]
           /\ since' = IF b = "add"
                         THEN [since EXCEPT ![d.inst] = @ \cup {<<d.type, l2>>}]
                       ELSE IF b = "remove"
                         THEN [since EXCEPT ![d.inst] = @ \ {<<d.type, l2>>}]
                       ELSE since
           /\ UNCHANGED <<storageVars, maskVars, credentialVars, windowVars, lifecycleVars,
                          busInstance, lastDispatch, lastNotice, wiped,
                          justDisposed, busCalls>>

\* forEach has no entry left (or the dispatch was ended): dispatchEvent is
\* over.
DispatchReturns ==
    LET d == dispatch
        entries == buses[d.inst][d.type]
    IN /\ d.active
       /\ d.aborted \/ NextEntry(entries, d.idx) = 0
       /\ lastDispatch' = [d EXCEPT !.active = FALSE,
                             !.result = IF d.aborted THEN "threw"
                                        ELSE "returned"]
       /\ dispatch' = IdleDispatch
       /\ buses' = [buses EXCEPT ![d.inst][d.type] = Live(@)]
       /\ UNCHANGED <<storageVars, maskVars, credentialVars, windowVars, lifecycleVars,
                      busInstance, lastNotice, since, wiped, justDisposed,
                      busCalls>>

NextBus ==
    \/ Activate
    \/ Deactivate
    \/ AddEventListener
    \/ RemoveEventListener
    \/ DispatchEvent
    \/ HostSecretChanged
    \/ ListenerCalled
    \/ DispatchReturns

\* The storage layer plays no part here: one of its initial states.
InitBus == Init /\ isTemporaryProfile /\ globalState = EmptyGlobal

SpecBus == InitBus /\ [][NextBus]_vars

(***************************************************************************)
(* Two windows: another window stores a key, this one is notified and      *)
(* reads                                                                   *)
(***************************************************************************)
\* The keys the other window stores.
RemoteKeys == {<<"s", "k", "7">>, <<"s", "k", "8">>}

\* Another window of the same editor, in persistent mode, has stored
\* apiKey under deepSeekApiKey (its context.secrets.store has succeeded):
\* the vault, which the windows share, holds it, and the host owes this
\* window, where the extension is active, a notification.
RemoteStore ==
    \E apiKey \in RemoteKeys :
        /\ activation # 0
        /\ Len(remote) < MaxRemoteStores
        /\ vault' = StoreSecretEffect(vault, "deepSeekApiKey", apiKey)
        /\ remote' = Append(remote, apiKey)
        /\ pending' = Append(pending, "deepSeekApiKey")
        /\ UNCHANGED <<isTemporaryProfile, inMemorySecrets, globalState,
                       calls, accepted, vaultAccessed, memAccessed,
                       storeErrors, maskVars, credentialVars, lifecycleVars,
                       busVars>>

\* The host calls this window's handler with the next notification it owes.
NoticeDelivered ==
    /\ pending # << >>
    /\ OnDidChangeSecret(Head(pending))
    /\ pending' = Tail(pending)
    /\ UNCHANGED remote

NextWindows ==
    \/ Activate
    \/ RemoteStore
    \/ NoticeDelivered
    \/ DispatchReturns
    \/ \E p \in Slots : GetApiKey(p)
    \/ \E p \in Slots : GetConfiguration(p)
    \/ ReadSucceeds

\* Nothing else happens in this window: one preference state.
InitWindows == Init /\ globalState = EmptyGlobal

SpecWindows == InitWindows /\ [][NextWindows]_vars

\* The host delivers every notification it owes, and dispatchEvent, which
\* is synchronous, runs to its end.
SpecWindowsFair ==
    SpecWindows /\ WF_vars(NoticeDelivered) /\ WF_vars(DispatchReturns)

(***************************************************************************)
(* Properties                                                              *)
(***************************************************************************)
\* Activation p ran with no other operation overlapping it, everything it
\* issued has settled, and no operation has begun since.
Observed(p) ==
    /\ Finished(calls[p])
    /\ calls[p].overlap = {}
    /\ \A q \in Slots : q > p => calls[q].pc = "idle"

IsUpdate(c) == c.op \in {"updateConfiguration", "saveConfig"}

\* What a secret key holds after a successful store of v.
Stored(v) == IF v = << >> THEN Undefined ELSE v

\* The value target t holds now, and held when c began.
Now(t) == IF t \in SecretKeys THEN Secrets[t] ELSE globalState[t]
Before(c, t) == IF t \in SecretKeys THEN c.pre.sec[t] ELSE c.pre.glob[t]

SecretSideFailed(c) == c.w["deepSeekApiKey"] = "fail"
PrefSideFailed(c) == \E k \in GlobalKeys : c.w[k] = "fail"

\* C1: after an updateConfiguration that supplied a model, ran alone and
\* succeeded, getConfiguration returns the model updated, and the secret
\* and the temperature, where the partial did not supply them, are as they
\* were before the call.
C1_UnsuppliedFieldsUntouched ==
    \A p \in Slots :
        LET c == calls[p] IN
        ( /\ Observed(p) /\ c.op = "updateConfiguration" /\ c.st = "ok"
          /\ c.cfg.model # NoPref ) =>
            /\ c.cfg.deepSeekApiKey = Undefined =>
                  GetApiConfiguration.deepSeekApiKey = c.pre.sec["deepSeekApiKey"]
            /\ c.cfg.model = NoPref => globalState["model"] = c.pre.glob["model"]
            /\ c.cfg.temperature = NoPref =>
                  globalState["temperature"] = c.pre.glob["temperature"]
            /\ c.cfg.model # NoPref => GetApiConfiguration.model = c.cfg.model

\* C2: the value stored under deepSeekApiKey, in either backend, is one
\* validateApiKey has accepted.
C2_StoredSecretWasValidated ==
    /\ vault["deepSeekApiKey"] # Undefined => vault["deepSeekApiKey"] \in accepted
    /\ inMemorySecrets["deepSeekApiKey"] # Undefined =>
          inMemorySecrets["deepSeekApiKey"] \in accepted

\* C3 as stated: when exactly one of the two sides (secret write,
\* preference writes) of an updateConfiguration fails, the failure is
\* reported, the store of the failed side is as it was before the call and
\* the store of the other side holds the new values.
C3_FailedStoreKeepsPriorValue ==
    \A p \in Slots :
        LET c == calls[p] IN
        (Observed(p) /\ IsUpdate(c) /\ (SecretSideFailed(c) # PrefSideFailed(c))) =>
            /\ c.st = "failed"
            /\ SecretSideFailed(c) =>
                  /\ Secrets = c.pre.sec
                  /\ \A k \in BatchedGlobalUpdates(c.cfg) :
                        globalState[k] = c.cfg[k]
            /\ PrefSideFailed(c) =>
                  /\ globalState = c.pre.glob
                  /\ Secrets["deepSeekApiKey"] = Stored(c.cfg.deepSeekApiKey)

\* C3 amended: when a write of an updateConfiguration fails, the failure is
\* reported, every key whose write failed holds what it held before the
\* call, every key whose write succeeded holds the value written (nothing
\* is rolled back), and every other key is untouched.
C3_FailedKeyKeepsPriorValue ==
    \A p \in Slots :
        LET c == calls[p] IN
        (Observed(p) /\ IsUpdate(c) /\ Failed(c) # {}) =>
            /\ c.st = "failed"
            /\ \A t \in Targets :
                  /\ c.w[t] = "fail" => Now(t) = Before(c, t)
                  /\ c.w[t] = "none" => Now(t) = Before(c, t)
                  /\ (c.w[t] = "ok" /\ t \in GlobalKeys) => Now(t) = c.cfg[t]
                  /\ (c.w[t] = "ok" /\ t \in SecretKeys) =>
                        Now(t) = Stored(c.cfg.deepSeekApiKey)

\* An updateConfiguration with two preference writes, of which one failed
\* and one succeeded, beside a successful secret write.
C3_Witness ==
    \E p \in Slots :
        LET c == calls[p] IN
        /\ Observed(p) /\ c.op = "updateConfiguration" /\ c.st = "failed"
        /\ c.w["model"] = "fail" /\ c.w["temperature"] = "ok"
        /\ c.cfg.deepSeekApiKey # Undefined
        /\ Secrets["deepSeekApiKey"] = c.cfg.deepSeekApiKey
        /\ globalState["temperature"] = c.cfg.temperature
        /\ globalState["temperature"] # c.pre.glob["temperature"]

\* C4: an updateConfiguration that has returned to its caller has no write
\* in flight.
C4_ReturnsAfterAllWritesSettled ==
    \A p \in Slots :
        (IsUpdate(calls[p]) /\ calls[p].pc = "done") => InFlight(calls[p]) = {}

\* C5: two updateConfiguration calls that overlap with nothing but each
\* other, one writing temperature 0.1 and one 0.9, both writes successful:
\* once both are finished the store holds one of the two values.
C5_LastTemperatureWriteWins ==
    \A p, q \in Slots :
        LET c == calls[p]
            d == calls[q] IN
        ( /\ p < q
          /\ c.op = "updateConfiguration" /\ d.op = "updateConfiguration"
          /\ {c.cfg.temperature, d.cfg.temperature} = {"0.1", "0.9"}
          /\ Finished(c) /\ Finished(d)
          /\ c.w["temperature"] = "ok" /\ d.w["temperature"] = "ok"
          /\ c.overlap \subseteq {q} /\ d.overlap \subseteq {p}
          /\ \A r \in Slots : r > q => calls[r].pc = "idle" )
        => globalState["temperature"] \in {c.cfg.temperature, d.cfg.temperature}

\* Two overlapping calls whose race the one that began first has won.
C5_Witness ==
    \E p, q \in Slots :
        LET c == calls[p]
            d == calls[q] IN
        /\ p < q
        /\ c.op = "updateConfiguration" /\ d.op = "updateConfiguration"
        /\ {c.cfg.temperature, d.cfg.temperature} = {"0.1", "0.9"}
        /\ Finished(c) /\ Finished(d)
        /\ c.w["temperature"] = "ok" /\ d.w["temperature"] = "ok"
        /\ c.overlap = {q} /\ d.overlap = {p}
        /\ globalState["temperature"] = c.cfg.temperature

\* Activation q is a get that began after activation p had finished, with
\* nothing between them and nothing overlapping either.
GetsRightAfter(p, q) ==
    /\ q = p + 1
    /\ Finished(calls[p]) /\ calls[p].overlap = {}
    /\ calls[q].op \in {"getApiKey", "getAuthNonce"}
    /\ calls[q].pc = "done" /\ calls[q].st = "ok" /\ calls[q].overlap = {}

\* C6: a get that follows at once a successful store of a non-empty S under
\* a secret key returns S, in both modes, through storeSecret and through
\* updateConfiguration.
C6_StoreThenGetRoundTrip ==
    \A p, q \in Slots :
        LET c == calls[p] IN
        ( /\ GetsRightAfter(p, q)
          /\ c.op \in {"updateConfiguration", "saveConfig", "setAuthNonce"}
          /\ c.w[calls[q].key] = "ok"
          /\ WriteValue(c, calls[q].key) \notin {Undefined, << >>} )
        => calls[q].out.deepSeekApiKey = WriteValue(c, calls[q].key)

\* A blank (but non-empty) nonce stored to the vault and read back.
C6_Witness ==
    \E p, q \in Slots :
        /\ GetsRightAfter(p, q)
        /\ ~isTemporaryProfile
        /\ calls[p].op = "setAuthNonce" /\ calls[p].val = <<" ">>
        /\ calls[p].w["authNonce"] = "ok"
        /\ calls[q].key = "authNonce"
        /\ calls[q].out.deepSeekApiKey = <<" ">>

\* C7: after a resetAll that ran alone and completed, both secret keys and
\* every preference key are absent, and getConfiguration returns an absent
\* secret and the default preferences.
C7_ResetAllClearsEverything ==
    \A p \in Slots :
        (Observed(p) /\ calls[p].op = "resetAll" /\ calls[p].st = "ok") =>
            /\ \A k \in SecretKeys : Secrets[k] = Undefined
            /\ \A k \in GlobalKeys : globalState[k] = NoPref
            /\ GetApiConfiguration =
                  [deepSeekApiKey |-> Undefined, model |-> "deepseek-chat",
                   temperature |-> "0.2"]

\* A resetAll that found a secret, a model and a key of an older version.
C7_Witness ==
    \E p \in Slots :
        LET c == calls[p] IN
        /\ Observed(p) /\ c.op = "resetAll" /\ c.st = "ok"
        /\ c.pre.sec["deepSeekApiKey"] # Undefined
        /\ c.pre.glob["legacyKey"] # NoPref
        /\ c.pre.glob["model"] # NoPref
        /\ globalState = EmptyGlobal

\* C8: in the temporary profile the vault is never read or written (no
\* access made, none in flight, its content unchanged); otherwise the
\* in-memory map is never used and stays empty.
C8_BackendsAreExclusive ==
    /\ isTemporaryProfile =>
          /\ ~vaultAccessed
          /\ vault = EmptySecrets
          /\ \A p \in Slots : /\ InFlight(calls[p]) \cap SecretKeys = {}
                              /\ calls[p].pc # "readSecret"
    /\ ~isTemporaryProfile =>
          /\ ~memAccessed
          /\ inMemorySecrets = EmptySecrets

\* The temporary profile after a store and a get: the key is in the map.
C8_Witness ==
    /\ isTemporaryProfile
    /\ inMemorySecrets["deepSeekApiKey"] # Undefined
    /\ \E p \in Slots : /\ calls[p].op = "getApiKey" /\ calls[p].pc = "done"
                        /\ calls[p].out.deepSeekApiKey # Undefined

\* C9: validateApiKey never rejects; it returns false for the empty
\* string, for an answer outside 2xx and for a transport failure, and true
\* exactly for an answer in 2xx.
C9_ValidateReturnsBoolean ==
    \A p \in Slots :
        LET c == calls[p] IN
        (c.op = "validateApiKey" /\ c.pc = "done") =>
            /\ c.st = "ok"
            /\ c.ret \in {"true", "false"}
            /\ c.val = << >> => c.ret = "false"
            /\ c.http.kind = "error" => c.ret = "false"
            /\ c.ret = "true" <=>
                  (c.http.kind = "response" /\ c.http.status \in 200..299)

\* One candidate accepted with 204, another refused with 401.
C9_Witness ==
    \E p, q \in Slots :
        /\ calls[p].op = "validateApiKey" /\ calls[p].pc = "done"
        /\ calls[p].ret = "true" /\ calls[p].http.status = 204
        /\ calls[q].op = "validateApiKey" /\ calls[q].pc = "done"
        /\ calls[q].ret = "false" /\ calls[q].http.status = 401

\* An empty or whitespace-only candidate.
BlankCandidate(v) == \A i \in 1..Len(v) : v[i] = " "

\* C10 as stated: a blank candidate is rejected without a request and the
\* rejection is reported as an error; no other candidate is answered with
\* an error.
C10_BlankReportedAsError ==
    \A p \in Slots :
        LET c == calls[p] IN
        (c.op = "validateApiKey" /\ c.pc = "done") =>
            /\ BlankCandidate(c.val) => c.nFetch = 0
            /\ BlankCandidate(c.val) <=> c.st = "failed"

\* C10 amended: a blank candidate is rejected without a request and the
\* rejection is reported as the boolean false; validateApiKey reports an
\* error for no candidate, and sends a request for every non-blank one.
C10_BlankRejectedLocallyAsFalse ==
    \A p \in Slots :
        LET c == calls[p] IN
        (c.op = "validateApiKey" /\ c.pc = "done") =>
            /\ c.st = "ok"
            /\ BlankCandidate(c.val) => (c.nFetch = 0 /\ c.ret = "false")
            /\ ~BlankCandidate(c.val) => c.nFetch = 1

\* A whitespace-only candidate answered false with no request sent.
C10_Witness ==
    \E p \in Slots :
        /\ calls[p].op = "validateApiKey" /\ calls[p].pc = "done"
        /\ calls[p].val = <<" ">>
        /\ calls[p].nFetch = 0 /\ calls[p].ret = "false"

\* C11: every validateApiKey on a non-blank candidate returns, also when the
\* endpoint never answers (the request is bounded by a timeout), and no
\* activation ever makes more than one request.
C11_ValidateEventuallyReturns ==
    /\ [](\A p \in Slots : calls[p].nFetch <= 1)
    /\ \A p \in Slots :
          (calls[p].pc = "validating") ~> (calls[p].pc # "validating")

\* C12: an operation of the service that has returned after one of its store
\* writes was answered with a StoreError has returned a failure.  (A failed
\* read ends getSecret and getApiConfiguration with the failure at once.)
C12_StoreErrorsSurface ==
    \A p \in Slots :
        LET c == calls[p] IN
        ( /\ c.op \in {"setApiKey", "removeApiKey", "updateConfiguration",
                       "getConfiguration", "resetAll", "setAuthNonce"}
          /\ c.pc = "done"
          /\ Failed(c) # {} )
        => c.st = "failed"

\* C13: mask(S) has the length of S; up to 8 characters every character is
\* the placeholder; above 8 the first 4 and the last 4 characters are those
\* of S and every character between them is the placeholder.
C13_MaskKeepsLengthAndEnds ==
    maskOut # NotMasked =>
        LET n == Len(maskIn) IN
        /\ Len(maskOut) = n
        /\ n <= 8 => \A i \in 1..n : maskOut[i] = Placeholder
        /\ n > 8 =>
              /\ \A i \in 1..4 : maskOut[i] = maskIn[i]
              /\ \A i \in (n - 3)..n : maskOut[i] = maskIn[i]
              /\ \A i \in 5..(n - 4) : maskOut[i] = Placeholder

\* A string of more than 8 characters has been masked.
C13_Witness ==
    /\ Len(maskIn) > 8
    /\ maskOut = SubSeq(maskIn, 1, 4) \o Repeat(Len(maskIn) - 8)
                    \o SubSeq(maskIn, Len(maskIn) - 3, Len(maskIn))
    /\ maskOut # maskIn

\* Activation q is a getMaskedApiKey that overlapped with nothing, returned,
\* and found the scenario's key stored when it began.
MasksScenarioKey(q) ==
    /\ calls[q].op = "getMaskedApiKey"
    /\ calls[q].pc = "done" /\ calls[q].st = "ok" /\ calls[q].overlap = {}
    /\ calls[q].pre.sec["deepSeekApiKey"] = ScenarioKey

\* C14, as stated: with "sk-ABCDEFGHIJKLMNOP" stored, getMaskedApiKey returns
\* "sk-A", 8 placeholders, "MNOP": 16 characters.
C14_ScenarioKeyMasksTo16 ==
    \A q \in Slots :
        MasksScenarioKey(q) =>
            /\ calls[q].out.deepSeekApiKey =
                  <<"s", "k", "-", "A">> \o Repeat(8) \o <<"M", "N", "O", "P">>
            /\ Len(calls[q].out.deepSeekApiKey) = 16

\* C14, amended: the key has 19 characters, and getMaskedApiKey returns
\* "sk-A", 11 placeholders, "MNOP": 19 characters.
C14_ScenarioKeyMasksTo19 ==
    \A q \in Slots :
        MasksScenarioKey(q) =>
            /\ calls[q].out.deepSeekApiKey =
                  <<"s", "k", "-", "A">> \o Repeat(11) \o <<"M", "N", "O", "P">>
            /\ Len(calls[q].out.deepSeekApiKey) = 19

\* The scenario's key was saved, and getMaskedApiKey came right after.
C14_Witness ==
    \E p, q \in Slots :
        /\ q = p + 1
        /\ calls[p].op = "saveConfig" /\ Finished(calls[p])
        /\ calls[p].st = "ok" /\ calls[p].cfg.deepSeekApiKey = ScenarioKey
        /\ MasksScenarioKey(q)
        /\ Len(calls[q].out.deepSeekApiKey) = Len(ScenarioKey)

\* Absent or blank.
NoneOrBlank(v) == ~Truthy(v) \/ Len(Trim(v)) = 0

\* Activation p is a flow that has no non-blank credential to find: the
\* secret stored when it began (nothing overlapped it), or the workspace
\* setting, and the environment variable are absent or blank.
LacksCredential(p) ==
    /\ NoneOrBlank(env)
    /\ \/ /\ calls[p].op = "clarifyText"
          /\ calls[p].overlap = {}
          /\ NoneOrBlank(calls[p].pre.sec["deepSeekApiKey"])
       \/ /\ calls[p].op = "enhanceText"
          /\ NoneOrBlank(settingsKey)

C16_OneCurrentInstancePerActivation ==
    /\ serviceInstance \in 0..Len(services)
    /\ activation # 0 =>
          /\ serviceInstance # 0
          /\ services[serviceInstance] = activation
    /\ activation = 0 => serviceInstance = 0
    /\ \A i \in 1..Len(serviceLog) :
          LET u == serviceLog[i] IN
          /\ u.instance \in 1..Len(services)
          /\ services[u.instance] = u.context
          /\ \A j \in 1..Len(serviceLog) :
                (serviceLog[j].activation = u.activation)
                    <=> (serviceLog[j].instance = u.instance)

\* After a re-activation, clarifyText and the provider have used the
\* service, and the first activation had used it too.
C16_Witness ==
    /\ activation = 2
    /\ \E i, j, k \in 1..Len(serviceLog) :
          /\ serviceLog[i].activation = 1
          /\ serviceLog[i].caller = "clarifyText"
          /\ serviceLog[j].activation = 2
          /\ serviceLog[j].caller = "clarifyText"
          /\ serviceLog[k].activation = 2
          /\ serviceLog[k].caller = "handleMessage"
          /\ serviceLog[j].instance = 2
          /\ services[2] = 2

\* A dispatchEvent has just returned.
Dispatched == lastDispatch.result # "none"

\* The listeners called, as a set.
Delivered(d) == {d.delivered[k] : k \in 1..Len(d.delivered)}

\* C17: a dispatchEvent that has returned has called exactly the listeners
\* that were registered for the event's type when it began, each once, in
\* the order of their registration, whatever the listeners did meanwhile.
C17_DeliversToListenersAtStart ==
    Dispatched => lastDispatch.delivered = lastDispatch.start

\* C18: dispatchEvent returns normally, and when a listener threw, every
\* listener registered after it for the same type (and not removed by a
\* listener during the dispatch) was called.
C18_ThrowingListenerIsIsolated ==
    Dispatched =>
        LET d == lastDispatch IN
        /\ d.result = "returned"
        /\ \A i, j \in 1..Len(d.start) :
              (i < j /\ d.start[i] \in d.threw /\ d.start[j] \notin d.removed)
                  => d.start[j] \in Delivered(d)

\* The first of two listeners threw, and the second was called.
C18_Witness ==
    /\ Dispatched
    /\ lastDispatch.start = <<1, 2>>
    /\ lastDispatch.threw = {1}
    /\ lastDispatch.delivered = <<1, 2>>
    /\ lastDispatch.result = "returned"

\* C19: a teardown leaves the object it tore down without listeners and the
\* reference null; a dispatchEvent made later on that object, or on an
\* object made after a teardown, returns normally and calls only listeners
\* registered on it since.
C19_TeardownClearsListeners ==
    /\ justDisposed # 0 =>
          /\ busInstance = 0
          /\ buses[justDisposed] = EmptyRegistry
    /\ (Dispatched /\ (lastDispatch.stale \/ lastDispatch.inst > 1)) =>
          /\ lastDispatch.result = "returned"
          /\ ~lastDispatch.calledOld

\* An event was dispatched on an object after the teardown had found a
\* listener for its type there: nobody was called.
C19_Witness ==
    /\ Dispatched
    /\ lastDispatch.stale
    /\ lastDispatch.type \in wiped[lastDispatch.inst]
    /\ lastDispatch.delivered = << >>
    /\ lastDispatch.result = "returned"

\* C20: the handling of a notification of the host, whichever secret key it
\* names, has published exactly one apiKeyChanged event, whose data is the
\* key's name.
C20_EveryChangeRepublished ==
    lastNotice.key # "none" =>
        lastNotice.events =
            << [type |-> "apiKeyChanged", data |-> [key |-> lastNotice.key]] >>

\* C22: the preference 'model', when present, is one of SUPPORTED_MODELS,
\* whatever updateConfiguration calls and 'saveConfig' messages there were,
\* and a getConfiguration that returned has returned a model of the list.
C22_ModelIsAllowListed ==
    /\ globalState["model"] # NoPref => globalState["model"] \in SUPPORTED_MODELS
    /\ \A p \in Slots :
          LET c == calls[p] IN
          (c.op = "getConfiguration" /\ c.pc = "done" /\ c.st = "ok")
              => c.out.model \in SUPPORTED_MODELS

\* The operations that write secret key k.
SecretWriters(k) ==
    IF k = "authNonce" THEN {"setAuthNonce", "clearAuthNonce", "resetAll"}
    ELSE {"setApiKey", "removeApiKey", "updateConfiguration", "saveConfig",
          "resetAll"}

\* C23: a step that changes what is stored under a secret key, in either
\* backend, is the completion of a write to that key by an operation on that
\* key or by resetAll: setAuthNonce and clearAuthNonce never change
\* deepSeekApiKey, and removeApiKey, setApiKey and updateConfiguration
\* never change authNonce; a resetAll that ran alone and completed has
\* removed both.
C23_SecretsHaveIndependentLifecycles ==
    /\ [][\A k \in SecretKeys :
            (vault'[k] # vault[k] \/ inMemorySecrets'[k] # inMemorySecrets[k])
                => \E p \in Slots :
                      /\ calls'[p].op \in SecretWriters(k)
                      /\ calls'[p].w[k] = "ok"
                      /\ calls[p].w[k] # "ok"]_vars
    /\ [](\A p \in Slots :
            (Observed(p) /\ calls[p].op = "resetAll" /\ calls[p].st = "ok")
                => \A k \in SecretKeys : Secrets[k] = Undefined)

\* A nonce was set beside a stored key, which was then removed: the nonce
\* is still there.
C23_Witness ==
    /\ calls[1].op = "setAuthNonce" /\ calls[1].st = "ok"
    /\ calls[1].pre.sec["deepSeekApiKey"] # Undefined
    /\ calls[2].op = "removeApiKey" /\ Observed(2) /\ calls[2].st = "ok"
    /\ calls[2].pre.sec = [calls[1].pre.sec EXCEPT !["authNonce"] = <<"n">>]
    /\ Secrets["authNonce"] = <<"n">>
    /\ Secrets["deepSeekApiKey"] = Undefined

\* The validator rejected the candidate of c: blank, or an answer outside
\* 2xx, or a transport failure.
Rejected(c) == IsBlank(c.val) \/ ~ResponseOk(c.http)

\* C24: a setApiKey(k) whose candidate the validator rejected has returned
\* false and has issued no write at all, so that, when it ran alone, the
\* stores are as they were before the call; a setApiKey(k) that ran alone
\* and returned true has left k stored under deepSeekApiKey.
C24_RejectedKeyLeavesStoredKey ==
    \A p \in Slots :
        LET c == calls[p] IN
        (c.op = "setApiKey" /\ c.pc = "done") =>
            /\ Rejected(c) =>
                  /\ c.ret = "false"
                  /\ \A t \in Targets : c.w[t] = "none"
            /\ (Observed(p) /\ Rejected(c)) =>
                  /\ Secrets = c.pre.sec
                  /\ globalState = c.pre.glob
            /\ (Observed(p) /\ c.ret = "true") =>
                  Secrets["deepSeekApiKey"] = c.val

\* A key was stored; setApiKey with another candidate was answered 401 and
\* returned false, and the key stored is the old one.
C24_Witness ==
    \E p \in Slots :
        LET c == calls[p] IN
        /\ c.op = "setApiKey" /\ Observed(p)
        /\ c.val = <<"s", "k", "4">>
        /\ c.http = [kind |-> "response", status |-> 401]
        /\ c.ret = "false"
        /\ c.pre.sec["deepSeekApiKey"] = <<"s", "k">>
        /\ Secrets["deepSeekApiKey"] = <<"s", "k">>

\* C25: a testApiKey that has returned reports on the candidate it was
\* given: with the empty string it has sent no request and, unless a store
\* failed, has returned false, whatever is stored; a request it sent for a candidate carried that
\* candidate, and the stored key only when no argument was given; with no
\* argument and no stored key it has returned false without a request.
C25_TestsTheCandidateGiven ==
    \A p \in Slots :
        LET c == calls[p]
            apiKey == c.cfg.deepSeekApiKey IN
        (c.op = "testApiKey" /\ c.pc = "done") =>
            /\ apiKey = << >> =>
                  (c.nFetch = 0 /\ (c.st = "ok" => c.ret = "false"))
            /\ (apiKey # Undefined /\ c.nFetch > 0) => c.val = apiKey
            /\ (apiKey = Undefined /\ c.nFetch > 0) =>
                  c.val = c.pre.sec["deepSeekApiKey"]
            /\ ( /\ apiKey = Undefined /\ c.st = "ok" /\ c.overlap = {}
                 /\ c.pre.sec["deepSeekApiKey"] = Undefined ) =>
                  (c.ret = "false" /\ c.nFetch = 0)

\* C26: a getDisplayConfiguration that has returned its result has derived
\* hasApiKey and apiKeyMasked from one value of the secret, whatever other
\* operations changed the secret meanwhile: not hasApiKey with an empty
\* mask, and not the mask of a non-blank secret without hasApiKey.
C26_DisplayFieldsAgree ==
    \A p \in Slots :
        LET c == calls[p] IN
        (c.op = "getDisplayConfiguration" /\ c.pc = "done" /\ c.st = "ok") =>
            /\ c.display.hasApiKey => c.display.apiKeyMasked # << >>
            /\ ~c.display.hasApiKey =>
                  \/ c.display.apiKeyMasked = << >>
                  \/ IsBlank(c.out.deepSeekApiKey)

\* The events the handler published for the notification it handled last
\* carry the name of the key and nothing else.
NoticeCarriesKeyOnly ==
    \A i \in 1..Len(lastNotice.events) :
        /\ DOMAIN lastNotice.events[i].data = {"key"}
        /\ lastNotice.events[i].data.key = lastNotice.key

\* Activation q is a getApiKey or getConfiguration of this window that has
\* returned, and that began after the other window had stored a key and
\* this window had been notified of it, with no store by the other window
\* since.
ReadAfterNotice(q) ==
    /\ calls[q].op \in {"getApiKey", "getConfiguration"}
    /\ calls[q].pc = "done" /\ calls[q].st = "ok"
    /\ Len(remote) > 0
    /\ calls[q].pre.remote = Len(remote)
    /\ calls[q].pre.pending = 0

====
